---- MODULE Spec2Model ----
(***************************************************************************)
(* The study-item service (MyMCP.init: six tools over the study_items      *)
(* table) and the review scheduler (calculateNextReview).                  *)
(*                                                                         *)
(* Times are integers: `clock' is the wall clock in milliseconds, stored   *)
(* timestamps are whole seconds.  An optional value (an omitted argument,  *)
(* a NULL column) is None == <<>> or Some(v) == <<v>>.  Free text that the *)
(* code inspects character by character (content) is a sequence of         *)
(* one-character strings.  A response is the payload handed to             *)
(* JSON.stringify.                                                         *)
(***************************************************************************)
EXTENDS Integers, Sequences, FiniteSets, TLC

VARIABLES store, clock, ticks, call, response

vars == <<store, clock, ticks, call, response>>

----------------------------------------------------------------------------
(* Bounds of the model *)

\* number of times the clock may be observed to have advanced
MaxTicks == 1
\* the first clock reading, in milliseconds
ClockStart == 1000500
\* a lapse of less than a second, in milliseconds
Moment == 600

None == <<>>
Some(v) == <<v>>

Users == {"A", "B"}
\* the identifiers, in the order in which they are handed out
IdList == <<"i1", "i2">>
Ids == {IdList[i] : i \in 1..Len(IdList)}

----------------------------------------------------------------------------
(* The schema and the scheduler *)

Levels == {"A1", "A2", "B1", "B2", "C1", "C2", "easy", "medium", "hard"}
RecallStrengths == {"strong", "medium", "weak"}

DEFAULT_SETTINGS == [weakInterval |-> 1, mediumInterval |-> 24, strongInterval |-> 72]

\* settings[`${recallStrength}Interval`]
hoursToAdd(recallStrength, settings) ==
    CASE recallStrength = "weak" -> settings.weakInterval
      [] recallStrength = "medium" -> settings.mediumInterval
      [] recallStrength = "strong" -> settings.strongInterval

\* now is the reading of `new Date()'; the result is a Date, in milliseconds
calculateNextReview(now, recallStrength) ==
    now + hoursToAdd(recallStrength, DEFAULT_SETTINGS) * 60 * 60 * 1000

\* Math.floor(ms / 1000)
FloorSeconds(ms) == ms \div 1000

\* crypto.randomUUID(): an identifier no row has yet.  Identifiers are
\* opaque, so the fresh ones are taken in a fixed order.
generateId(st) == IdList[Cardinality(st) + 1]

----------------------------------------------------------------------------
(* Host primitives *)

\* String.prototype.toLowerCase, one character at a time
LowerChar(c) ==
    CASE c = "A" -> "a"
      [] c = "B" -> "b"
      [] c = "C" -> "c"
      [] OTHER -> c

toLowerCase(str) == [i \in 1..Len(str) |-> LowerChar(str[i])]

\* String.prototype.includes: needle occurs in hay as a contiguous substring
includes(hay, needle) ==
    \E i \in 0..(Len(hay) - Len(needle)) :
        \A j \in 1..Len(needle) : hay[i + j] = needle[j]

\* Array.prototype.includes
arrayIncludes(arr, x) == \E i \in 1..Len(arr) : arr[i] = x

\* new Date(str).getTime(): the milliseconds the string denotes, None (NaN)
\* for an Invalid Date.  The constructor never throws.
DateGetTime(str) ==
    CASE str = "1970-01-01T00:16:40Z" -> Some(1000000)
      [] str = "1970-01-01T01:16:40.500Z" -> Some(4600500)
      [] OTHER -> None

\* Math.floor(x / 1000) of a number that may be NaN
FloorSecondsNaN(x) == IF x = None THEN None ELSE Some(FloorSeconds(x[1]))

\* JavaScript truthiness of an optional string: undefined and "" are falsy
TruthyString(arg) == arg # None /\ arg[1] # ""

\* the same for text held as a sequence of characters
TruthyText(arg) == arg # None /\ arg[1] # <<>>

\* JavaScript truthiness of a nullable number: null and 0 are falsy
TruthyNumber(n) == n # None /\ n[1] # 0

\* the orders in which a set of rows can come back as a list
Orderings(S) ==
    {f \in [1..Cardinality(S) -> S] : \A i, j \in 1..Cardinality(S) : i # j => f[i] # f[j]}

----------------------------------------------------------------------------
(* State: the rows of study_items, the wall clock, how often it has moved,  *)
(* the last call and its response                                          *)

\* the payload of every catch block
errorPayload == [kind |-> "error", success |-> FALSE, error |-> "Error"]

Init ==
    /\ store = {}
    /\ clock = ClockStart
    /\ ticks = 0
    /\ call = [op |-> "none", failed |-> FALSE]
    /\ response = [kind |-> "none"]

\* the clock moves on by d between or inside operations
Advance(d) ==
    /\ ticks + (IF d > 0 THEN 1 ELSE 0) <= MaxTicks
    /\ clock' = clock + d
    /\ ticks' = ticks + (IF d > 0 THEN 1 ELSE 0)

Tick(d) ==
    /\ d > 0
    /\ Advance(d)
    /\ UNCHANGED <<store, call, response>>

----------------------------------------------------------------------------
(* create_study_item *)

\* mutant of createValues: next_review is stored in milliseconds
createValuesMillis(id, userId, type, content, level, tags, notes, nextReview, dbNow) ==
    [id |-> id, userId |-> userId, type |-> type, content |-> content,
     level |-> level, tags |-> tags, recallStrength |-> "weak",
     lastReviewed |-> None,
     nextReview |-> nextReview,
     notes |-> notes, createdAt |-> dbNow, updatedAt |-> dbNow]

\* the row inserted by db.insert(studyItems).values({...}): the supplied
\* fields, the schema's defaults for the columns left out, dbNow the
\* database's unixepoch()
createValues(id, userId, type, content, level, tags, notes, nextReview, dbNow) ==
    [id |-> id, userId |-> userId, type |-> type, content |-> content,
     level |-> level, tags |-> tags, recallStrength |-> "weak",
     lastReviewed |-> None,
     nextReview |-> FloorSeconds(nextReview),
     notes |-> notes, createdAt |-> dbNow, updatedAt |-> dbNow]

\* the statement fails when the storage layer does, or on a duplicate
\* primary key
insertSucceeds(st, row, storageOk) ==
    storageOk /\ \A r \in st : r.id # row.id

\* mutant of createResult: the failure is not caught
createResultUncaught(inserted, id) == [kind |-> "created", id |-> id, success |-> TRUE]

\* try { ... return {id, success: true} } catch { return {error, success: false} }
createResult(inserted, id) ==
    IF inserted THEN [kind |-> "created", id |-> id, success |-> TRUE]
    ELSE errorPayload

\* id is what generateId() returns, storageOk whether the statement goes
\* through, dbLag how far the clock has moved when the database reads it
create_study_item(userId, type, content, level, tagsArg, notes, id, storageOk, dbLag) ==
    LET tags == IF tagsArg = None THEN <<>> ELSE tagsArg[1]
        nextReview == calculateNextReview(clock, "weak")
        row == createValues(id, userId, type, content, level, tags, notes,
                            nextReview, FloorSeconds(clock + dbLag))
        inserted == insertSucceeds(store, row, storageOk)
    IN /\ Advance(dbLag)
       /\ store' = IF inserted THEN store \cup {row} ELSE store
       /\ call' = [op |-> "create", failed |-> ~storageOk]
       /\ response' = createResult(inserted, id)

----------------------------------------------------------------------------
(* update_study_performance *)

\* mutants of updateWhere: the owner is not compared; either column matching
\* is enough
updateWhereIdOnly(r, id, userId) == r.id = id

updateWhereEither(r, id, userId) == r.id = id \/ r.userId = userId

\* .where(and(eq(studyItems.id, id), eq(studyItems.userId, userId)))
updateWhere(r, id, userId) == r.id = id /\ r.userId = userId

\* mutant of updateSet: the tags column is written as well
updateSetAlsoTags(r, recallStrength, now, nextReview, nowDate) ==
    [r EXCEPT !.recallStrength = recallStrength,
              !.lastReviewed = Some(now),
              !.nextReview = FloorSeconds(nextReview),
              !.updatedAt = FloorSeconds(nowDate),
              !.tags = <<>>]

\* .set({recallStrength, lastReviewed, nextReview, updatedAt})
updateSet(r, recallStrength, now, nextReview, nowDate) ==
    [r EXCEPT !.recallStrength = recallStrength,
              !.lastReviewed = Some(now),
              !.nextReview = FloorSeconds(nextReview),
              !.updatedAt = FloorSeconds(nowDate)]

\* try { ... return {success: true} } catch { return {error, success: false} }
updateResult(storageOk) ==
    IF storageOk THEN [kind |-> "updated", success |-> TRUE] ELSE errorPayload

\* the clock is read three times: in calculateNextReview, by Date.now() lag1
\* later and by new Date() lag2 after that
update_study_performance(id, userId, recallStrength, storageOk, lag1, lag2) ==
    LET nextReview == calculateNextReview(clock, recallStrength)
        now == FloorSeconds(clock + lag1)
        nowDate == clock + lag1 + lag2
    IN /\ Advance(lag1 + lag2)
       /\ store' = IF storageOk
                   THEN {IF updateWhere(r, id, userId)
                         THEN updateSet(r, recallStrength, now, nextReview, nowDate)
                         ELSE r : r \in store}
                   ELSE store
       /\ call' = [op |-> "update", id |-> id, userId |-> userId,
                   failed |-> ~storageOk]
       /\ response' = updateResult(storageOk)

----------------------------------------------------------------------------
(* search_study_items *)

\* and(eq(userId, userId), [eq(type, type)], [eq(level, level)])
searchWhere(r, userId, type, level) ==
    /\ r.userId = userId
    /\ TruthyString(type) => r.type = type[1]
    /\ TruthyString(level) => r.level = level[1]

\* .orderBy(desc(studyItems.updatedAt)); rows with equal keys come in any order
orderByUpdatedAtDesc(S) ==
    {f \in Orderings(S) :
        \A i, j \in 1..Cardinality(S) : i < j => f[i].updatedAt >= f[j].updatedAt}

\* item.content.toLowerCase().includes(content.toLowerCase())
contentFilter(item, content) ==
    includes(toLowerCase(item.content), toLowerCase(content))

\* mutant of tagsFilter: every for some
tagsFilterEvery(item, tags) ==
    \A i \in 1..Len(tags) : arrayIncludes(item.tags, tags[i])

\* tags.some(tag => item.tags?.includes(tag) || false)
tagsFilter(item, tags) ==
    \E i \in 1..Len(tags) : arrayIncludes(item.tags, tags[i])

searchFiltered(results, content, tags) ==
    LET keepContent(item) == contentFilter(item, content[1])
        keepTags(item) == tagsFilter(item, tags[1])
        byContent == IF TruthyText(content) THEN SelectSeq(results, keepContent) ELSE results
    IN IF tags # None /\ Len(tags[1]) > 0 THEN SelectSeq(byContent, keepTags) ELSE byContent

search_study_items(userId, content, tags, type, level, storageOk) ==
    \E results \in orderByUpdatedAtDesc({r \in store : searchWhere(r, userId, type, level)}) :
        /\ call' = [op |-> "search", userId |-> userId, content |-> content,
                    tags |-> tags, type |-> type, level |-> level,
                    failed |-> ~storageOk]
        /\ response' = IF storageOk
                       THEN [kind |-> "items",
                             items |-> searchFiltered(results, content, tags)]
                       ELSE errorPayload
        /\ UNCHANGED <<store, clock, ticks>>

----------------------------------------------------------------------------
(* get_items_for_review *)

\* dueBefore ? Math.floor(new Date(dueBefore).getTime() / 1000) : now
dueBeforeTimestamp(dueBefore, now) ==
    IF TruthyString(dueBefore) THEN FloorSecondsNaN(DateGetTime(dueBefore[1]))
    ELSE Some(now)

\* mutant of lteNextReview: lt for lte
ltNextReview(r, threshold) == threshold # None /\ r.nextReview < threshold[1]

\* lte(studyItems.nextReview, dueBeforeTimestamp): a comparison with NaN
\* (bound as NULL) is true of no row
lteNextReview(r, threshold) == threshold # None /\ r.nextReview <= threshold[1]

reviewWhere(r, userId, recallStrength, threshold) ==
    /\ r.userId = userId
    /\ lteNextReview(r, threshold)
    /\ TruthyString(recallStrength) => r.recallStrength = recallStrength[1]

\* .orderBy(asc(studyItems.nextReview))
orderByNextReviewAsc(S) ==
    {f \in Orderings(S) :
        \A i, j \in 1..Cardinality(S) : i < j => f[i].nextReview <= f[j].nextReview}

\* try { ... return results } catch { return {error, success: false} }
reviewResult(storageOk, results) ==
    IF storageOk THEN [kind |-> "items", items |-> results] ELSE errorPayload

get_items_for_review(userId, recallStrength, dueBefore, storageOk) ==
    LET now == FloorSeconds(clock)
        threshold == dueBeforeTimestamp(dueBefore, now)
    IN \E results \in orderByNextReviewAsc(
              {r \in store : reviewWhere(r, userId, recallStrength, threshold)}) :
        /\ call' = [op |-> "review", userId |-> userId,
                    recallStrength |-> recallStrength, dueBefore |-> dueBefore,
                    failed |-> ~storageOk]
        /\ response' = reviewResult(storageOk, results)
        /\ UNCHANGED <<store, clock, ticks>>

----------------------------------------------------------------------------
(* get_study_types *)

\* selectDistinct({type}).where(eq(userId, userId)), then results.map(r => r.type)
distinctTypes(st, userId) == {r.type : r \in {x \in st : x.userId = userId}}

get_study_types(userId, storageOk) ==
    \E types \in Orderings(distinctTypes(store, userId)) :
        /\ call' = [op |-> "types", userId |-> userId, failed |-> ~storageOk]
        /\ response' = IF storageOk THEN [kind |-> "types", types |-> types]
                       ELSE errorPayload
        /\ UNCHANGED <<store, clock, ticks>>

----------------------------------------------------------------------------
(* get_learning_stats *)

\* allItems.forEach(item => { m[key(item)] = (m[key(item)] || 0) + 1 })
RECURSIVE countBy(_, _)
countBy(items, field) ==
    IF items = {} THEN [k \in {} |-> 0]
    ELSE LET item == CHOOSE x \in items : TRUE
             m == countBy(items \ {item}, field)
             key == item[field]
         IN [k \in DOMAIN m \cup {key} |->
                IF k = key THEN (IF k \in DOMAIN m THEN m[k] ELSE 0) + 1 ELSE m[k]]

\* mutant of reviewedTodayTest: > for >=
reviewedTodayTestStrict(item, now) ==
    TruthyNumber(item.lastReviewed) /\ item.lastReviewed[1] > now - 86400

\* item.lastReviewed && item.lastReviewed >= now - 86400
reviewedTodayTest(item, now) ==
    TruthyNumber(item.lastReviewed) /\ item.lastReviewed[1] >= now - 86400

\* item.nextReview <= now
dueTest(item, now) == item.nextReview <= now

\* db.select().from(studyItems).where(eq(studyItems.userId, userId))
statsWhere(r, userId) == r.userId = userId

learningStats(allItems, now) ==
    [total |-> Cardinality(allItems),
     byRecallStrength |->
        [weak |-> Cardinality({i \in allItems : i.recallStrength = "weak"}),
         medium |-> Cardinality({i \in allItems : i.recallStrength = "medium"}),
         strong |-> Cardinality({i \in allItems : i.recallStrength = "strong"})],
     byLevel |-> countBy(allItems, "level"),
     byType |-> countBy(allItems, "type"),
     dueForReview |-> Cardinality({i \in allItems : dueTest(i, now)}),
     reviewedToday |-> Cardinality({i \in allItems : reviewedTodayTest(i, now)})]

get_learning_stats(userId, storageOk) ==
    LET allItems == {r \in store : statsWhere(r, userId)}
        now == FloorSeconds(clock)
    IN /\ call' = [op |-> "stats", userId |-> userId, failed |-> ~storageOk]
       /\ response' = IF storageOk
                      THEN [kind |-> "stats", stats |-> learningStats(allItems, now)]
                      ELSE errorPayload
       /\ UNCHANGED <<store, clock, ticks>>

----------------------------------------------------------------------------
(* The service: the six tools called in any order, by any user, with the   *)
(* clock moving between the calls                                          *)

Hour == 60 * 60 * 1000
Day == 24 * Hour

CreateOver(types, contents, levels, tagArgs, notesArgs, lags) ==
    \E userId \in Users, type \in types, content \in contents, level \in levels,
       tags \in tagArgs, notes \in notesArgs, storageOk \in BOOLEAN, dbLag \in lags :
        \* z.enum([...]) rejects any other level before the handler runs
        /\ level \in Levels
        /\ Cardinality(store) < Len(IdList)
        /\ create_study_item(userId, type, content, level, tags, notes,
                             generateId(store), storageOk, dbLag)

UpdateOver(strengths, lags) ==
    \E id \in Ids, userId \in Users, recallStrength \in strengths,
       storageOk \in BOOLEAN, lag1 \in lags, lag2 \in lags :
        /\ recallStrength \in RecallStrengths
        \* the clock moves at most once within the call
        /\ lag1 = 0 \/ lag2 = 0
        /\ update_study_performance(id, userId, recallStrength, storageOk, lag1, lag2)

SearchOver(contents, tagArgs, types, levels) ==
    \E userId \in Users, content \in contents, tags \in tagArgs, type \in types,
       level \in levels, storageOk \in BOOLEAN :
        search_study_items(userId, content, tags, type, level, storageOk)

ReviewOver(strengths, dueBefores) ==
    \E userId \in Users, recallStrength \in strengths, dueBefore \in dueBefores,
       storageOk \in BOOLEAN :
        get_items_for_review(userId, recallStrength, dueBefore, storageOk)

StudyTypes == \E userId \in Users, storageOk \in BOOLEAN : get_study_types(userId, storageOk)

Stats == \E userId \in Users, storageOk \in BOOLEAN : get_learning_stats(userId, storageOk)
\* All six tools, a few values of every argument.
Next ==
    \/ \E d \in {Day} : Tick(d)
    \/ CreateOver({"vocab"}, {<<"A", "b">>}, {"A1"}, {None, Some(<<"x">>)}, {None}, {0})
    \/ UpdateOver({"weak", "strong"}, {0})
    \/ SearchOver({None, Some(<<"B">>)}, {None, Some(<<"x">>)}, {None}, {None})
    \/ ReviewOver({None}, {None, Some("not-a-date")})
    \/ StudyTypes
    \/ Stats

Spec == Init /\ [][Next]_vars

\* Creation with every argument of create_study_item varied, the clock
\* moving by less than a second and by an hour, between and inside the calls.
NextCreate ==
    \/ \E d \in {Moment, Hour} : Tick(d)
    \/ CreateOver({"vocab", "grammar"}, {<<"A", "b">>, <<"c">>}, {"A1", "hard"},
                  {None, Some(<<"x", "y">>)}, {None, Some("n")}, {0, Moment})

SpecCreate == Init /\ [][NextCreate]_vars

\* The writes, the clock moving between the readings one call takes of it.
NextSchedule ==
    \/ \E d \in {Moment, Hour} : Tick(d)
    \/ CreateOver({"vocab"}, {<<"A", "b">>}, {"A1"}, {None}, {None}, {0, Moment})
    \/ UpdateOver(RecallStrengths, {0, Moment})

SpecSchedule == Init /\ [][NextSchedule]_vars

\* The due-set query, the clock moving by an hour or a day.
NextReview ==
    \/ \E d \in {Hour, Day} : Tick(d)
    \/ CreateOver({"vocab"}, {<<"A", "b">>}, {"A1"}, {None}, {None}, {0})
    \/ UpdateOver({"weak", "strong"}, {0})
    \/ ReviewOver({None, Some("weak")},
                  {None, Some(""), Some("not-a-date"), Some("1970-01-01T00:16:40Z"),
                   Some("1970-01-01T01:16:40.500Z")})

SpecReview == Init /\ [][NextReview]_vars

\* The statistics, over items of two types and two levels, the clock moving
\* by a day or by a day and an hour.
NextStats ==
    \/ \E d \in {Day, Day + Hour} : Tick(d)
    \/ CreateOver({"vocab", "grammar"}, {<<"A", "b">>}, {"A1", "hard"}, {None}, {None}, {0})
    \/ UpdateOver({"medium", "strong"}, {0})
    \/ Stats

SpecStats == Init /\ [][NextStats]_vars

\* The search, over items of two types, two contents and three tag lists.
NextSearch ==
    \/ CreateOver({"vocab", "grammar"}, {<<"A", "b">>, <<"c">>}, {"A1"},
                  {None, Some(<<"x", "y">>), Some(<<"y", "z">>)}, {None}, {0})
    \/ SearchOver({None, Some(<<"B">>)},
                  {None, Some(<<>>), Some(<<"x">>), Some(<<"z", "x">>)},
                  {None, Some("vocab")}, {None})

SpecSearch == Init /\ [][NextSearch]_vars

----------------------------------------------------------------------------
(* Properties *)

Range(seq) == {seq[i] : i \in 1..Len(seq)}

\* a list that holds every row of S once and nothing else
ListsExactly(seq, S) == Range(seq) = S /\ Len(seq) = Cardinality(S)

\* the step is a call of the tool op: every tool records itself in call, and
\* only the passing of time leaves call, response and store as they were
IsCall(op) ==
    /\ call'.op = op
    /\ <<store, call, response>>' # <<store, call, response>> \/ clock' = clock

\* C1: an update made for one user leaves every row of every other user
\* exactly as it was, whatever the id and the recall strength.
C1_CrossUserIsolation ==
    [][IsCall("update") =>
         \A u \in Users \ {call'.userId} :
             {r \in store' : r.userId = u} = {r \in store : r.userId = u}]_vars

\* an update has gone through that named the id of a row of another user,
\* and that row has never been reviewed
C1_Witness ==
    /\ call.op = "update" /\ response.kind = "updated"
    /\ \E r \in store :
         r.id = call.id /\ r.userId # call.userId /\ r.lastReviewed = None

\* C7: an update that matches no row (unknown id, or the id of another
\* user's row) answers {success: true} when its statement goes through, and
\* leaves the store as it was.
C7_NoMatchIsSuccess ==
    [][(/\ IsCall("update")
        /\ ~call'.failed
        /\ ~\E r \in store : r.id = call'.id /\ r.userId = call'.userId)
       => /\ response' = [kind |-> "updated", success |-> TRUE]
          /\ store' = store]_vars

\* an update that named the id of another user's row has answered success,
\* and no row of the store has been reviewed
C7_Witness ==
    /\ call.op = "update" /\ ~call.failed
    /\ response.kind = "updated" /\ response.success
    /\ store # {}
    /\ \A r \in store : r.lastReviewed = None
    /\ \E r \in store : r.id = call.id /\ r.userId # call.userId

\* C6: a tool whose storage statement fails answers {error, success: false}
\* and leaves the store as it was.
C6_FailureIsReported ==
    [][(call'.op # "none" /\ call'.failed) =>
         /\ response'.kind = "error"
         /\ response'.success = FALSE
         /\ store' = store]_vars

\* a failed update of a row that exists: the row is as it was created
C6_Witness ==
    /\ call.op = "update" /\ call.failed /\ response.kind = "error"
    /\ \E r \in store :
         r.id = call.id /\ r.userId = call.userId /\ r.lastReviewed = None

\* C10: no step removes a row or changes its id, userId, type, content,
\* level (or tags, notes, createdAt); only update_study_performance changes a
\* row; the four reading tools leave the store as it was.
C10_Lifecycle ==
    [][/\ \A r \in store :
            \E r2 \in store' :
                /\ r2 = [r EXCEPT !.recallStrength = r2.recallStrength,
                                  !.lastReviewed = r2.lastReviewed,
                                  !.nextReview = r2.nextReview,
                                  !.updatedAt = r2.updatedAt]
                /\ r2 # r => call'.op = "update"
       /\ call'.op \in {"search", "review", "types", "stats"} => store' = store
       /\ Cardinality(store') >= Cardinality(store)]_vars

\* a tagged row has been reviewed a day after its creation
C10_Witness ==
    /\ call.op = "update"
    /\ \E r \in store :
         /\ r.id = call.id /\ r.tags = <<"x">>
         /\ r.lastReviewed # None /\ r.updatedAt > r.createdAt

\* C2: called with neither dueBefore nor recallStrength, get_items_for_review
\* returns exactly the caller's rows whose nextReview is at or before the
\* clock reading of the call, in whole seconds.
C2_DueSet ==
    [][(/\ IsCall("review")
        /\ call'.dueBefore = None /\ call'.recallStrength = None
        /\ ~call'.failed)
       => /\ response'.kind = "items"
          /\ ListsExactly(response'.items,
                          {r \in store : /\ r.userId = call'.userId
                                         /\ r.nextReview <= FloorSeconds(clock)})]_vars

\* the list holds a row that falls due at this very second, and leaves out a
\* row of the caller that falls due later
C2_Witness ==
    /\ call.op = "review" /\ call.dueBefore = None /\ call.recallStrength = None
    /\ response.kind = "items"
    /\ \E i \in 1..Len(response.items) :
         response.items[i].nextReview = FloorSeconds(clock)
    /\ \E r \in store :
         /\ r.userId = call.userId /\ r.nextReview > FloorSeconds(clock)
         /\ r \notin Range(response.items)

\* C5 as stated: a dueBefore that is no date is answered with the error
\* payload.
C5_InvalidDateIsError ==
    (call.op = "review" /\ call.dueBefore = Some("not-a-date"))
        => response.kind = "error"

\* C8: with a non-empty tags argument, search_study_items returns exactly the
\* caller's rows that pass the type, level and content filters and have a
\* tag in common with the argument.
TagsOf(list) == {list[i] : i \in 1..Len(list)}

PassesFilters(r, c) ==
    /\ r.userId = c.userId
    /\ c.type # None => r.type = c.type[1]
    /\ c.level # None => r.level = c.level[1]
    /\ c.content # None => includes(toLowerCase(r.content), toLowerCase(c.content[1]))

C8_TagsIntersect ==
    (/\ call.op = "search" /\ ~call.failed
     /\ call.tags # None /\ call.tags[1] # <<>>)
    => /\ response.kind = "items"
       /\ ListsExactly(response.items,
                       {r \in store : /\ PassesFilters(r, call)
                                      /\ TagsOf(r.tags) \cap TagsOf(call.tags[1]) # {}})

\* tags = ["x"] has returned a row tagged ["x", "y"] and left out a row of
\* the caller tagged ["y", "z"] and one with no tags
C8_Witness ==
    /\ call.op = "search" /\ call.tags = Some(<<"x">>) /\ response.kind = "items"
    /\ call.type = None /\ call.content = None
    /\ Len(response.items) = 1 /\ response.items[1].tags = <<"x", "y">>
    /\ \E r \in store :
         r.userId = call.userId /\ r.tags \in {<<"y", "z">>, <<>>}

\* C9: get_learning_stats counts the caller's rows and nothing else: total,
\* the three recall-strength buckets, the rows per level and per type (keys
\* for the values present only), the rows due at the clock reading of the
\* call, and the rows reviewed in the 86400 seconds up to it.  For a user
\* with no rows every count is 0 and both maps are empty.
StatsAgree(st, mine, now) ==
    LET having(s) == Cardinality({r \in mine : r.recallStrength = s})
        due == {r \in mine : r.nextReview <= now}
        today == {r \in mine :
                    r.lastReviewed # None /\ r.lastReviewed[1] >= now - 86400}
    IN /\ st.total = Cardinality(mine)
       /\ st.byRecallStrength.weak = having("weak")
       /\ st.byRecallStrength.medium = having("medium")
       /\ st.byRecallStrength.strong = having("strong")
       /\ st.byRecallStrength.weak + st.byRecallStrength.medium
            + st.byRecallStrength.strong = st.total
       /\ DOMAIN st.byLevel = {r.level : r \in mine}
       /\ \A k \in DOMAIN st.byLevel :
            st.byLevel[k] = Cardinality({r \in mine : r.level = k})
       /\ DOMAIN st.byType = {r.type : r \in mine}
       /\ \A k \in DOMAIN st.byType :
            st.byType[k] = Cardinality({r \in mine : r.type = k})
       /\ st.dueForReview = Cardinality(due)
       /\ st.reviewedToday = Cardinality(today)
       /\ mine = {} =>
            /\ st.total = 0 /\ st.dueForReview = 0 /\ st.reviewedToday = 0
            /\ st.byRecallStrength = [weak |-> 0, medium |-> 0, strong |-> 0]
            /\ DOMAIN st.byLevel = {} /\ DOMAIN st.byType = {}

C9_Stats ==
    [][(IsCall("stats") /\ ~call'.failed)
       => /\ response'.kind = "stats"
          /\ StatsAgree(response'.stats,
                        {r \in store : r.userId = call'.userId},
                        FloorSeconds(clock))]_vars

\* the statistics of a user whose one row was reviewed exactly 86400 seconds
\* ago, while another user has a row too
C9_Witness ==
    /\ call.op = "stats" /\ response.kind = "stats"
    /\ response.stats.total = 1
    /\ response.stats.reviewedToday = 1
    /\ \E r \in store :
         /\ r.userId = call.userId
         /\ r.lastReviewed = Some(FloorSeconds(clock) - 86400)
    /\ \E r \in store : r.userId # call.userId

\* the statistics of a user with no row, while another user has one
C9_WitnessEmpty ==
    /\ call.op = "stats" /\ response.kind = "stats"
    /\ response.stats.total = 0
    /\ \E r \in store : r.userId # call.userId

\* C3: a create_study_item that succeeds adds exactly one row, with
\* recallStrength weak, no lastReviewed, and nextReview 3600 seconds after
\* the clock reading of the call, in whole seconds.
C3_CreatedRow ==
    [][(IsCall("create") /\ response'.kind = "created")
       => \E row \in store' :
            /\ row \notin store
            /\ store' = store \cup {row}
            /\ row.id = response'.id
            /\ row.recallStrength = "weak"
            /\ row.lastReviewed = None
            /\ row.nextReview = FloorSeconds(clock) + 3600]_vars

\* a row created with tags and notes, beside a row created without, an hour
\* earlier
C3_Witness ==
    /\ call.op = "create" /\ response.kind = "created"
    /\ \E r \in store :
         /\ r.id = response.id
         /\ r.tags = <<"x", "y">> /\ r.notes = Some("n") /\ r.level = "hard"
         /\ r.recallStrength = "weak" /\ r.lastReviewed = None
         /\ r.nextReview = FloorSeconds(clock) + 3600
    /\ \E r \in store :
         /\ r.id # response.id /\ r.tags = <<>> /\ r.notes = None
         /\ r.nextReview <= FloorSeconds(clock)

\* C4 as stated: a reviewed row has lastReviewed = the update time and
\* nextReview = that time + the interval of its recall strength.
C4_NextReviewFromLastReviewed ==
    \A r \in store :
        r.lastReviewed # None =>
            r.nextReview = r.lastReviewed[1]
                             + hoursToAdd(r.recallStrength, DEFAULT_SETTINGS) * 3600

====
